---- MODULE Spec2Model ----
(***************************************************************************)
(* Model of sktime/dists_kernels/numba/distances/base/_base.py:            *)
(* the NumbaDistance abstract base class with its two entry points         *)
(* distance (a staticmethod) and distance_factory (an instance method),    *)
(* the operand validator _validate_factory_timeseries and the abstract     *)
(* _distance_factory that concrete metrics implement.                      *)
(*                                                                         *)
(* Every call is synchronous, so one action models one whole call.  The    *)
(* variable cur records the latest call (inputs, the ordered steps the     *)
(* call performed, and the outcome the caller observes), repeated tells    *)
(* whether that call had the same entry point and arguments as the call    *)
(* before it, and inst is the attribute dictionary of each metric          *)
(* instance.                                                               *)
(***************************************************************************)
EXTENDS Integers, Sequences, FiniteSets, TLC

VARIABLES cur, repeated, inst

vars == <<cur, repeated, inst>>

(***************************************************************************)
(* Bounds and input sets.                                                  *)
(***************************************************************************)
\* Largest number of dimensions of an ndarray operand that is enumerated.
MaxNdim == 3

\* x.ndim != 2 (line 106): the only accepted number of dimensions.
RequiredNdim == 2

\* Python values handed in as operands.  kind is the Python type; for an
\* ndarray ndim is its .ndim, for a list it is the nesting depth of the
\* literal ([[0, 1, 2]] has depth 2) and for a float it is 0.  Only an
\* ndarray has an attribute called ndim.  data stands for the numbers
\* stored, so that two well-formed series can differ.
NoVal == [kind |-> "none", ndim |-> 0, data |-> ""]

Arrays ==
    {[kind |-> "ndarray", ndim |-> n, data |-> "a"] : n \in 0..MaxNdim}
        \cup {[kind |-> "ndarray", ndim |-> RequiredNdim, data |-> "b"]}

NonArrays ==
    {[kind |-> "list", ndim |-> RequiredNdim, data |-> "a"],
     [kind |-> "float", ndim |-> 0, data |-> "a"]}

Operands == Arrays \cup NonArrays

\* **kwargs of a call, as a set of <<name, value>> pairs.  distance and
\* distance_factory both declare x and y as named parameters, so a keyword
\* called x or y never ends up in kwargs.
KwargSets == {{}, {<<"window", 1>>}, {<<"window", -1>>}}

Keys(kwargs) == {p[1] : p \in kwargs}

\* Concrete subclasses of NumbaDistance, named after what their
\* _distance_factory does.
Metrics == {"windowed", "uncompiled", "raising"}

(***************************************************************************)
(* Values, exceptions, outcomes.                                           *)
(***************************************************************************)
\* str(x) as interpolated by the f-strings of lines 102 and 108: the text
\* shows the numbers, the bracket nesting and the separator style of the
\* type, and nothing about which parameter the value was passed as.
Render(x) ==
    [style |-> IF x.kind = "ndarray" THEN "space separated"
               ELSE IF x.kind = "list" THEN "comma separated"
               ELSE "literal",
     brackets |-> x.ndim,
     numbers |-> x.data]

NoText == [style |-> "", brackets |-> 0, numbers |-> ""]

NoExc == [type |-> "none", msg |-> "", arg |-> NoText]

Exc(type, msg, arg) == [type |-> type, msg |-> msg, arg |-> arg]

\* Objects a call can return: a numba dispatcher (has the attribute
\* signatures), a plain Python function (has not), or the float a
\* dispatcher computes for an operand pair.
NoObj == [kind |-> "none", signatures |-> FALSE, metric |-> "-", kwargs |-> {},
          x |-> NoVal, y |-> NoVal]

Dispatcher(metric, kwargs) ==
    [kind |-> "dispatcher", signatures |-> TRUE, metric |-> metric,
     kwargs |-> kwargs, x |-> NoVal, y |-> NoVal]

PlainFunction(metric, kwargs) ==
    [kind |-> "function", signatures |-> FALSE, metric |-> metric,
     kwargs |-> kwargs, x |-> NoVal, y |-> NoVal]

Float(callable, x, y) ==
    [kind |-> "float", signatures |-> FALSE, metric |-> callable.metric,
     kwargs |-> callable.kwargs, x |-> x, y |-> y]

Return(obj) == [status |-> "return", exc |-> NoExc, value |-> obj]

Raise(exc) == [status |-> "raise", exc |-> exc, value |-> NoObj]

\* One step a call performed, in order of execution: the function entered,
\* the arguments it was given and what it returned or raised.
Ev(op, self, x, y, kwargs, out) ==
    [op |-> op, self |-> self, x |-> x, y |-> y, kwargs |-> kwargs,
     out |-> out]

\* What a call leaves behind: the outcome the caller observes, the steps it
\* performed, the operands as they are after the call and the attribute
\* dictionary of self after the call.
Res(outcome, events, x, y, dict) ==
    [outcome |-> outcome, events |-> events, x |-> x, y |-> y, dict |-> dict]

(***************************************************************************)
(* The program.                                                            *)
(***************************************************************************)
\* Variant: the x.ndim test of line 106 is left out.
validate_without_rank_check(x) ==
    IF x.kind # "ndarray"
    THEN Raise(Exc("ValueError", "is not a numpy array", Render(x)))
    ELSE Return(NoObj)

\* Variant: the isinstance test of line 100 is replaced by duck typing on
\* the nesting depth, so that anything two levels deep passes.
validate_without_type_check(x) ==
    IF x.ndim # RequiredNdim
    THEN Raise(Exc("ValueError", "has the incorrect number of dimensions",
                   Render(x)))
    ELSE Return(NoObj)

\* _validate_factory_timeseries(x), lines 85-111.
_validate_factory_timeseries(x) ==
    IF x.kind # "ndarray"
    THEN Raise(Exc("ValueError", "is not a numpy array", Render(x)))
    ELSE IF x.ndim # RequiredNdim
         THEN Raise(Exc("ValueError", "has the incorrect number of dimensions",
                        Render(x)))
         ELSE Return(NoObj)

\* _distance_factory(self, x, y, **kwargs), lines 113-139: abstract, each
\* metric supplies its own.  "windowed" validates its window kwarg and then
\* returns a numba dispatcher; "uncompiled" returns an ordinary Python
\* function; in "raising" the backend throws.
_distance_factory(self, x, y, kwargs) ==
    CASE self.name = "windowed" ->
            IF \E p \in kwargs : p[1] = "window" /\ p[2] < 0
            THEN Raise(Exc("ValueError", "window must be non-negative", NoText))
            ELSE Return(Dispatcher(self.name, kwargs))
      [] self.name = "uncompiled" -> Return(PlainFunction(self.name, kwargs))
      [] OTHER -> Raise(Exc("TypingError", "backend failed to type the function",
                            NoText))

\* Calling the object distance_factory returned on (x, y), line 31.
Invoke(callable, x, y) ==
    IF callable.kind \in {"dispatcher", "function"}
    THEN Return(Float(callable, x, y))
    ELSE Raise(Exc("TypeError", "object is not callable", NoText))

\* Python's binding of a call f(*pos, **kw) to the parameters
\* (self, x, y, **kwargs) of distance_factory, line 33-35.
FactoryParams == <<"self", "x", "y">>

BindFactoryCall(pos, kw) ==
    LET n == Len(FactoryParams)
        missing == {i \in (Len(pos) + 1)..n : FactoryParams[i] \notin Keys(kw)}
        twice == {i \in 1..Len(pos) : i <= n /\ FactoryParams[i] \in Keys(kw)}
    IN  IF Len(pos) > n
        THEN Raise(Exc("TypeError", "too many positional arguments", NoText))
        ELSE IF twice # {}
        THEN Raise(Exc("TypeError", "got multiple values for argument", NoText))
        ELSE IF missing # {}
        THEN Raise(Exc("TypeError", "missing required positional argument",
                       NoText))
        ELSE Return(NoObj)

\* The value the parameter FactoryParams[i] is bound to by f(*pos, **kw).
BoundArg(pos, kw, i) ==
    IF i <= Len(pos) THEN pos[i]
    ELSE (CHOOSE p \in kw : p[1] = FactoryParams[i])[2]

\* A metric instance as the methods see it: its class and its __dict__.
Instance(m, dict) == [kind |-> "metric", name |-> m, dict |-> dict]

\* Variant: y is validated before x.
distance_factory_y_first(self, x, y, kwargs) ==
    LET vy == _validate_factory_timeseries(y)
        e1 == <<Ev("validate y", "-", NoVal, y, {}, vy)>>
    IN  IF vy.status = "raise" THEN Res(vy, e1, x, y, self.dict)
        ELSE
        LET vx == _validate_factory_timeseries(x)
            e2 == Append(e1, Ev("validate x", "-", x, NoVal, {}, vx))
        IN  IF vx.status = "raise" THEN Res(vx, e2, x, y, self.dict)
            ELSE
            LET r == _distance_factory(self, x, y, kwargs)
                e3 == Append(e2, Ev("_distance_factory", self.name, x, y,
                                    kwargs, r))
            IN  IF r.status = "raise" THEN Res(r, e3, x, y, self.dict)
                ELSE IF ~r.value.signatures
                THEN Res(Raise(Exc("RuntimeError",
                                   "could not be no_python compiled", NoText)),
                         e3, x, y, self.dict)
                ELSE Res(Return(r.value), e3, x, y, self.dict)

\* Variant: the hasattr test of line 76 is left out.
distance_factory_unchecked(self, x, y, kwargs) ==
    LET vx == _validate_factory_timeseries(x)
        e1 == <<Ev("validate x", "-", x, NoVal, {}, vx)>>
    IN  IF vx.status = "raise" THEN Res(vx, e1, x, y, self.dict)
        ELSE
        LET vy == _validate_factory_timeseries(y)
            e2 == Append(e1, Ev("validate y", "-", NoVal, y, {}, vy))
        IN  IF vy.status = "raise" THEN Res(vy, e2, x, y, self.dict)
            ELSE
            LET r == _distance_factory(self, x, y, kwargs)
                e3 == Append(e2, Ev("_distance_factory", self.name, x, y,
                                    kwargs, r))
            IN  Res(r, e3, x, y, self.dict)

\* Variant: the compiled callable is memoised on the instance, keyed by
\* the arguments, and a later call with the same arguments reuses it.
distance_factory_cached(self, x, y, kwargs) ==
    LET vx == _validate_factory_timeseries(x)
        e1 == <<Ev("validate x", "-", x, NoVal, {}, vx)>>
    IN  IF vx.status = "raise" THEN Res(vx, e1, x, y, self.dict)
        ELSE
        LET vy == _validate_factory_timeseries(y)
            e2 == Append(e1, Ev("validate y", "-", NoVal, y, {}, vy))
            key == <<x, y, kwargs>>
        IN  IF vy.status = "raise" THEN Res(vy, e2, x, y, self.dict)
            ELSE IF \E c \in self.dict : c[1] = key
            THEN Res(Return((CHOOSE c \in self.dict : c[1] = key)[2]), e2,
                     x, y, self.dict)
            ELSE
            LET r == _distance_factory(self, x, y, kwargs)
                e3 == Append(e2, Ev("_distance_factory", self.name, x, y,
                                    kwargs, r))
            IN  IF r.status = "raise" THEN Res(r, e3, x, y, self.dict)
                ELSE IF ~r.value.signatures
                THEN Res(Raise(Exc("RuntimeError",
                                   "could not be no_python compiled", NoText)),
                         e3, x, y, self.dict)
                ELSE Res(Return(r.value), e3, x, y,
                         self.dict \cup {<<key, r.value>>})

\* Variant: line 74 passes the operands in the order (y, x).
distance_factory_swapped(self, x, y, kwargs) ==
    LET vx == _validate_factory_timeseries(x)
        e1 == <<Ev("validate x", "-", x, NoVal, {}, vx)>>
    IN  IF vx.status = "raise" THEN Res(vx, e1, x, y, self.dict)
        ELSE
        LET vy == _validate_factory_timeseries(y)
            e2 == Append(e1, Ev("validate y", "-", NoVal, y, {}, vy))
        IN  IF vy.status = "raise" THEN Res(vy, e2, x, y, self.dict)
            ELSE
            LET r == _distance_factory(self, y, x, kwargs)
                e3 == Append(e2, Ev("_distance_factory", self.name, y, x,
                                    kwargs, r))
            IN  IF r.status = "raise" THEN Res(r, e3, x, y, self.dict)
                ELSE IF ~r.value.signatures
                THEN Res(Raise(Exc("RuntimeError",
                                   "could not be no_python compiled", NoText)),
                         e3, x, y, self.dict)
                ELSE Res(Return(r.value), e3, x, y, self.dict)

\* distance_factory(self, x, y, **kwargs), lines 33-83.
distance_factory(self, x, y, kwargs) ==
    LET vx == _validate_factory_timeseries(x)
        e1 == <<Ev("validate x", "-", x, NoVal, {}, vx)>>
    IN  IF vx.status = "raise" THEN Res(vx, e1, x, y, self.dict)
        ELSE
        LET vy == _validate_factory_timeseries(y)
            e2 == Append(e1, Ev("validate y", "-", NoVal, y, {}, vy))
        IN  IF vy.status = "raise" THEN Res(vy, e2, x, y, self.dict)
            ELSE IF self.kind # "metric"
            THEN Res(Raise(Exc("AttributeError",
                               "object has no attribute _distance_factory",
                               NoText)), e2, x, y, {})
            ELSE
            LET no_python_callable == _distance_factory(self, x, y, kwargs)
                e3 == Append(e2, Ev("_distance_factory", self.name, x, y,
                                    kwargs, no_python_callable))
            IN  IF no_python_callable.status = "raise"
                THEN Res(no_python_callable, e3, x, y, self.dict)
                ELSE IF ~no_python_callable.value.signatures
                THEN Res(Raise(Exc("RuntimeError",
                                   "could not be no_python compiled", NoText)),
                         e3, x, y, self.dict)
                ELSE Res(Return(no_python_callable.value), e3, x, y, self.dict)

\* distance(x, y, **kwargs), lines 12-31.  A staticmethod: it receives no
\* instance, and line 30 calls the plain function
\* NumbaDistance.distance_factory with the two operands as its only
\* positional arguments.
distance(x, y, kwargs) ==
    LET pos == <<x, y>>
        bound == BindFactoryCall(pos, kwargs)
    IN  IF bound.status = "raise" THEN Res(bound, <<>>, x, y, {})
        ELSE
        LET dist_callable == distance_factory(BoundArg(pos, kwargs, 1),
                                              BoundArg(pos, kwargs, 2),
                                              BoundArg(pos, kwargs, 3),
                                              {p \in kwargs : p[1] \notin
                                                  {FactoryParams[i] : i \in 1..3}})
            result == Invoke(dist_callable.outcome.value, x, y)
        IN  IF dist_callable.outcome.status = "raise"
            THEN Res(dist_callable.outcome, dist_callable.events, x, y, {})
            ELSE Res(result,
                     Append(dist_callable.events,
                            Ev("invoke", dist_callable.outcome.value.metric,
                               x, y, {}, result)),
                     x, y, {})

\* m.distance_factory(x, y, **kwargs) on an instance m: the bound method
\* passes m as the first positional argument.
bound_distance_factory(self, x, y, kwargs) ==
    LET pos == <<self, x, y>>
        bound == BindFactoryCall(pos, kwargs)
    IN  IF bound.status = "raise" THEN Res(bound, <<>>, x, y, self.dict)
        ELSE distance_factory(BoundArg(pos, kwargs, 1), BoundArg(pos, kwargs, 2),
                              BoundArg(pos, kwargs, 3), kwargs)

(***************************************************************************)
(* State machine.                                                          *)
(***************************************************************************)
NoCall ==
    [entry |-> "none", self |-> "-", x |-> NoVal, y |-> NoVal, kwargs |-> {},
     outcome |-> Return(NoObj), events |-> <<>>, xAfter |-> NoVal,
     yAfter |-> NoVal]

Call(entry, m, x, y, kwargs, r) ==
    [entry |-> entry, self |-> m, x |-> x, y |-> y, kwargs |-> kwargs,
     outcome |-> r.outcome, events |-> r.events, xAfter |-> r.x,
     yAfter |-> r.y]

\* The entry point and arguments of a recorded call.
Key(c) == <<c.entry, c.self, c.x, c.y, c.kwargs>>

\* NumbaDistance defines no __init__: a fresh instance has an empty __dict__.
Init ==
    /\ cur = NoCall
    /\ repeated = FALSE
    /\ inst = [m \in Metrics |-> {}]

\* A caller runs NumbaDistance.distance(x, y, **kwargs), or the same through
\* a subclass or an instance: a staticmethod is handed no receiver.
CallDistance(x, y, kwargs) ==
    /\ cur' = Call("distance", "-", x, y, kwargs, distance(x, y, kwargs))
    /\ repeated' = (Key(cur') = Key(cur))
    /\ UNCHANGED inst

\* A caller runs m.distance_factory(x, y, **kwargs).
CallDistanceFactory(m, x, y, kwargs) ==
    LET r == bound_distance_factory(Instance(m, inst[m]), x, y, kwargs)
    IN  /\ cur' = Call("distance_factory", m, x, y, kwargs, r)
        /\ repeated' = (Key(cur') = Key(cur))
        /\ inst' = [inst EXCEPT ![m] = r.dict]

Next ==
    \E x \in Operands, y \in Operands, kwargs \in KwargSets :
        \/ CallDistance(x, y, kwargs)
        \/ \E m \in Metrics : CallDistanceFactory(m, x, y, kwargs)

Spec == Init /\ [][Next]_vars

TypeOK ==
    /\ cur.entry \in {"none", "distance", "distance_factory"}
    /\ cur.outcome.status \in {"return", "raise"}
    /\ repeated \in BOOLEAN
    /\ DOMAIN inst = Metrics

(***************************************************************************)
(* Vocabulary of the properties.                                           *)
(***************************************************************************)
\* A well-formed time series: a numpy array with exactly two dimensions.
WellFormed(v) == v.kind = "ndarray" /\ v.ndim = 2

\* An array of the right type but the wrong number of dimensions.
WrongRankArray(v) == v.kind = "ndarray" /\ v.ndim # 2

\* The steps of the recorded call c that entered the function op.
Steps(c, op) == SelectSeq(c.events, LAMBDA e : e.op = op)

BackendCalls(c) == Len(Steps(c, "_distance_factory"))

\* The position in c.events of the first step that entered op (0 if none).
FirstStep(c, op) ==
    IF \E i \in 1..Len(c.events) : c.events[i].op = op
    THEN CHOOSE i \in 1..Len(c.events) :
            /\ c.events[i].op = op
            /\ \A j \in 1..(i - 1) : c.events[j].op # op
    ELSE 0

\* The two families of invalid-input error, told apart by their message.
IsWrongType(o) ==
    /\ o.status = "raise"
    /\ o.exc.type = "ValueError"
    /\ o.exc.msg = "is not a numpy array"

IsWrongRank(o) ==
    /\ o.status = "raise"
    /\ o.exc.type = "ValueError"
    /\ o.exc.msg = "has the incorrect number of dimensions"

\* The error family of the specification an outcome belongs to.
Family(o) ==
    IF o.status = "return" THEN "result"
    ELSE IF IsWrongType(o) \/ IsWrongRank(o) THEN "InvalidInput"
    ELSE IF o.exc.type = "ValueError" THEN "SpecializationError"
    ELSE IF o.exc.type = "RuntimeError" THEN "CompilationError"
    ELSE "raw exception"

(***************************************************************************)
(* C1.  distance(x, y, cfg) returns the scalar that distance_factory on    *)
(* the metric followed by one invocation of the callable on (x, y)         *)
(* returns, whenever the latter yields a scalar.                           *)
(***************************************************************************)
C1_DistanceAgreesWithFactory ==
    cur.entry = "distance" =>
        \A m \in Metrics :
            LET f == bound_distance_factory(Instance(m, inst[m]), cur.x, cur.y,
                                            cur.kwargs).outcome
            IN  f.status = "return" => cur.outcome = Invoke(f.value, cur.x, cur.y)

(***************************************************************************)
(* C2 as stated.  A distance_factory call in which x or y is an array      *)
(* whose number of dimensions is not two fails with the wrong-rank error   *)
(* and never enters the metric's _distance_factory.                        *)
(***************************************************************************)
C2_WrongRankAlwaysReported ==
    (cur.entry = "distance_factory"
        /\ (WrongRankArray(cur.x) \/ WrongRankArray(cur.y))) =>
            /\ IsWrongRank(cur.outcome)
            /\ BackendCalls(cur) = 0

(***************************************************************************)
(* C2 amended.  Such a call fails with an invalid-input ValueError and     *)
(* never enters _distance_factory; the error is the wrong-rank one when x  *)
(* is a numpy array, and the not-a-numpy-array one for x when x is not.    *)
(***************************************************************************)
C2_WrongRankRejected ==
    (cur.entry = "distance_factory"
        /\ (WrongRankArray(cur.x) \/ WrongRankArray(cur.y))) =>
            /\ BackendCalls(cur) = 0
            /\ cur.x.kind = "ndarray" => IsWrongRank(cur.outcome)
            /\ cur.x.kind # "ndarray" => IsWrongType(cur.outcome)

C2_Witness ==
    /\ cur.entry = "distance_factory"
    /\ WellFormed(cur.x)
    /\ WrongRankArray(cur.y)
    /\ cur.y.ndim = 3
    /\ IsWrongRank(cur.outcome)

(***************************************************************************)
(* C3.  The operand that makes validation fail is reported as WrongType    *)
(* exactly when it is not a numpy array and as WrongRank exactly when it   *)
(* is a numpy array of the wrong rank; the two kinds never coincide.       *)
(***************************************************************************)
C3_TypeBeforeRank ==
    (cur.entry = "distance_factory"
        /\ ~(WellFormed(cur.x) /\ WellFormed(cur.y))) =>
            LET v == IF WellFormed(cur.x) THEN cur.y ELSE cur.x
            IN  /\ v.kind # "ndarray" =>
                    IsWrongType(cur.outcome) /\ ~IsWrongRank(cur.outcome)
                /\ v.kind = "ndarray" =>
                    IsWrongRank(cur.outcome) /\ ~IsWrongType(cur.outcome)

C3_Witness ==
    /\ cur.entry = "distance_factory"
    /\ cur.x.kind = "list"
    /\ cur.x.ndim = 2
    /\ IsWrongType(cur.outcome)

(***************************************************************************)
(* C4.  Whatever distance_factory returns has the attribute signatures;    *)
(* when the operands are well formed and the metric's _distance_factory    *)
(* returned an object without it, distance_factory raises RuntimeError.    *)
(***************************************************************************)
C4_OnlyCompiledReturned ==
    cur.entry = "distance_factory" =>
        /\ cur.outcome.status = "return" => cur.outcome.value.signatures
        /\ \A i \in 1..Len(cur.events) :
            (/\ cur.events[i].op = "_distance_factory"
             /\ cur.events[i].out.status = "return"
             /\ ~cur.events[i].out.value.signatures) =>
                /\ cur.outcome.status = "raise"
                /\ cur.outcome.exc.type = "RuntimeError"

C4_Witness ==
    /\ cur.entry = "distance_factory"
    /\ cur.self = "uncompiled"
    /\ BackendCalls(cur) = 1
    /\ cur.outcome.status = "raise"
    /\ cur.outcome.exc.type = "RuntimeError"

(***************************************************************************)
(* C5.  Every call of distance or distance_factory validates x exactly     *)
(* once and y exactly once, both before _distance_factory is entered.      *)
(***************************************************************************)
C5_ValidatedExactlyOnce ==
    cur.entry # "none" =>
        /\ Len(Steps(cur, "validate x")) = 1
        /\ Len(Steps(cur, "validate y")) = 1
        /\ BackendCalls(cur) > 0 =>
            /\ FirstStep(cur, "validate x") < FirstStep(cur, "_distance_factory")
            /\ FirstStep(cur, "validate y") < FirstStep(cur, "_distance_factory")

(***************************************************************************)
(* C6.  Every call ends in a result, InvalidInput, SpecializationError or  *)
(* CompilationError; an exception thrown inside the metric's               *)
(* _distance_factory never reaches the caller as it was thrown.            *)
(***************************************************************************)
C6_FourOutcomes ==
    cur.entry # "none" =>
        /\ Family(cur.outcome) \in
              {"result", "InvalidInput", "SpecializationError", "CompilationError"}
        /\ \A i \in 1..Len(cur.events) :
            (/\ cur.events[i].op = "_distance_factory"
             /\ cur.events[i].out.status = "raise"
             /\ cur.events[i].out.exc.type = "TypingError") =>
                cur.outcome.exc # cur.events[i].out.exc

(***************************************************************************)
(* C7.  distance called with an operand that is not a two-dimensional      *)
(* numpy array fails with the validator's WrongType or WrongRank error,    *)
(* before any code of the metric runs.                                     *)
(***************************************************************************)
C7_DistanceRejectsMalformed ==
    (cur.entry = "distance"
        /\ ~(WellFormed(cur.x) /\ WellFormed(cur.y))) =>
            /\ IsWrongType(cur.outcome) \/ IsWrongRank(cur.outcome)
            /\ BackendCalls(cur) = 0
            /\ Len(Steps(cur, "invoke")) = 0

(***************************************************************************)
(* C8 as stated.  When validation rejects a distance_factory call, x is    *)
(* examined before y, a malformed x is reported without y being examined,  *)
(* and the error tells which of the two operands was malformed: two        *)
(* rejected calls that raise the same error were rejected for the same     *)
(* operand.                                                                *)
(***************************************************************************)
Rejected(c) ==
    /\ c.entry = "distance_factory"
    /\ IsWrongType(c.outcome) \/ IsWrongRank(c.outcome)
    /\ BackendCalls(c) = 0

\* The operand whose validation ended the rejected call c.
Offender(c) == c.events[Len(c.events)].op

XBeforeY(c) ==
    /\ ~WellFormed(c.x) =>
        /\ Len(c.events) = 1
        /\ c.events[1].op = "validate x"
        /\ c.outcome.status = "raise"
        /\ c.outcome.exc.arg = Render(c.x)
    /\ (WellFormed(c.x) /\ ~WellFormed(c.y)) =>
        /\ Len(c.events) = 2
        /\ c.events[1].op = "validate x"
        /\ c.events[2].op = "validate y"
        /\ c.outcome.status = "raise"
        /\ c.outcome.exc.arg = Render(c.y)

C8_ErrorNamesOperand ==
    [][/\ cur'.entry = "distance_factory" => XBeforeY(cur')
       /\ (Rejected(cur) /\ Rejected(cur') /\ cur'.outcome.exc = cur.outcome.exc)
            => Offender(cur') = Offender(cur)]_vars

(***************************************************************************)
(* C8 amended.  When validation rejects a distance_factory call, x is      *)
(* examined before y and a malformed x is reported without y being         *)
(* examined; the error is the ValueError the validator raised for the      *)
(* offending operand, and it carries the text of that operand's value      *)
(* only, not whether the value was passed as x or as y.                    *)
(***************************************************************************)
C8_ErrorCarriesOperandText ==
    cur.entry = "distance_factory" =>
        /\ XBeforeY(cur)
        /\ Rejected(cur) => cur.outcome = cur.events[Len(cur.events)].out

C8_Witness ==
    /\ cur.entry = "distance_factory"
    /\ WellFormed(cur.x)
    /\ cur.y.kind = "list"
    /\ Rejected(cur)
    /\ Offender(cur) = "validate y"
    /\ cur.outcome.exc.arg = Render(cur.y)

(***************************************************************************)
(* C9.  The core keeps no state and does not cache: a distance_factory     *)
(* call with well-formed operands enters the metric's _distance_factory    *)
(* exactly once, also when it repeats the call before it; a repeated call  *)
(* performs the same steps and ends in the same outcome as the call        *)
(* before it; and no call writes an attribute of the instance.             *)
(***************************************************************************)
C9_NoStateNoCache ==
    [][cur'.entry = "distance_factory" =>
        /\ (WellFormed(cur'.x) /\ WellFormed(cur'.y)) => BackendCalls(cur') = 1
        /\ Key(cur') = Key(cur) =>
            /\ cur'.outcome = cur.outcome
            /\ cur'.events = cur.events
        /\ inst' = inst
        /\ \A m \in Metrics : inst'[m] = {}]_vars

C9_Witness ==
    /\ cur.entry = "distance_factory"
    /\ repeated
    /\ WellFormed(cur.x)
    /\ WellFormed(cur.y)
    /\ BackendCalls(cur) = 1
    /\ cur.outcome.status = "return"

(***************************************************************************)
(* C10.  distance_factory leaves x and y as they were, hands the metric's  *)
(* _distance_factory the same self, x, y and kwargs in that order, keeps   *)
(* nothing on the instance, and on success returns the very object         *)
(* _distance_factory produced.                                             *)
(***************************************************************************)
C10_OperandsPassedUntouched ==
    cur.entry = "distance_factory" =>
        /\ cur.xAfter = cur.x
        /\ cur.yAfter = cur.y
        /\ \A m \in Metrics : inst[m] = {}
        /\ cur.outcome.status = "return" => BackendCalls(cur) = 1
        /\ \A i \in 1..Len(cur.events) :
            /\ cur.events[i].op = "validate x" => cur.events[i].x = cur.x
            /\ cur.events[i].op = "validate y" => cur.events[i].y = cur.y
            /\ cur.events[i].op = "_distance_factory" =>
                /\ cur.events[i].self = cur.self
                /\ cur.events[i].x = cur.x
                /\ cur.events[i].y = cur.y
                /\ cur.events[i].kwargs = cur.kwargs
                /\ cur.outcome.status = "return" =>
                      cur.outcome.value = cur.events[i].out.value

C10_Witness ==
    /\ cur.entry = "distance_factory"
    /\ WellFormed(cur.x)
    /\ WellFormed(cur.y)
    /\ cur.x # cur.y
    /\ cur.kwargs # {}
    /\ cur.outcome.status = "return"
    /\ cur.outcome.value.kind = "dispatcher"
====
